---- MODULE Spec2Model ----
(***************************************************************************)
(* Session control plane of paude on the remote (OpenShift) substrate.     *)
(*                                                                         *)
(* The program is src/paude/backends/openshift.py: every session verb is a *)
(* sequence of `oc` invocations.  Each invocation is one atomic step of    *)
(* the process that issues it (the API server linearizes single calls);    *)
(* several paude processes may run against the same namespace.  The        *)
(* cluster side (StatefulSet controller, garbage collector, PVC            *)
(* protection, the workload writing to its volume) is modelled as          *)
(* environment actions.                                                    *)
(***************************************************************************)
EXTENDS Integers, Sequences, FiniteSets, TLC

\* ------------------------------------------------------------------ bounds
\* Polls of the readiness loop before the budget is exhausted
\* (the code: 300 s budget, one poll every 2 s).
MaxPolls == 2
\* Largest exit code the attached terminal session can return.
MaxExit == 1
\* Longest time, in seconds, a child process is followed for.
MaxDuration == 61
\* Longest run of one character in a directory name.
MaxRun == 21

Procs == {1, 2}
\* Session names of the namespace, and the names the verbs are invoked with.
Names == {"a", "b"}
Invoked == {"a"}
\* Contents of the one tracked path under the workspace; NoFile: the path is absent.
NoFile == "nofile"
Contents == {"B1", "B2"}
ExitCodes == 0..MaxExit
CredKinds == {"gcloud", "gitconfig", "claude"}

VARIABLES
    \* ---- substrate objects of the namespace, per session name
    sts,        \* StatefulSet paude-<n>: [exists, replicas, restricted]
    pod,        \* phase of Pod paude-<n>-0: "none", "Pending", "Running", "Failed"
    pvc,        \* PVC workspace-paude-<n>-0: "none", "bound", "terminating"
    pvcData,    \* content of one path under /pvc/workspace (NoFile: no such file)
    secrets,    \* labelled Secret/ConfigMap objects of the session (subset of CredKinds)
    netpol,     \* NetworkPolicy paude-egress-<n>: "none", "restricted", "permissive"
    proxy,      \* per-session proxy Deployment+Service exists
    \* ---- host
    workspace,  \* content of the same path in the local workspace directory
    home,       \* credential sources present under $HOME (subset of CredKinds)
    \* ---- session discovery
    cwd,        \* the directory paude is run from
    reach,      \* the substrates that answer ("podman", "openshift")
    podman,     \* local sessions: name -> [status, workspace], status "none" when absent
    annot,      \* paude.io/workspace annotation of StatefulSet paude-<n>
    res,        \* outcome of the last discovery call
    \* ---- one run of the paude command line
    run,        \* the process: position, handlers, proxy container, exit
    spawn,      \* the child process spawned last: channels, timeout, outcome
    naming,     \* create's name: config.name, workspace.name, the session name
    build,      \* the inputs of the workspace image and the tags computed from them
    coded,      \* a workspace path, its paude.io/workspace value, the path read back
    \* ---- paude processes
    pc, call, result, polls, log,
    \* ---- history (not read by any action guard)
    created,    \* created[n]: create calls that returned a Session since the StatefulSet last was absent
    lastDeleted,\* lastDeleted[p]: name whose confirmed delete was p's previous call, "-" otherwise
    kept        \* kept[n]: content on the volume at the last stop (later workload writes included)

substrate == <<sts, pod, pvc, pvcData, secrets, netpol, proxy>>
discovery == <<cwd, reach, podman, annot, res>>
host == <<workspace, home, discovery, run, spawn, naming, build, coded>>
procs == <<pc, call, result, polls, log>>
history == <<created, lastDeleted, kept>>
vars == <<sts, pod, pvc, pvcData, secrets, netpol, proxy, workspace, home,
          cwd, reach, podman, annot, res, run, spawn, naming, build, coded,
          pc, call, result, polls, log, created, lastDeleted, kept>>

NoSts == [exists |-> FALSE, replicas |-> 0, restricted |-> FALSE]
NoCall == [verb |-> "none", name |-> "a", network_restricted |-> FALSE,
           confirm |-> FALSE, sync |-> FALSE]
NoResult == [exc |-> "", code |-> 0, status |-> ""]

\* Discovery: directories, substrates, local session names, status filters.
Dirs == {"W", "W2"}
Substrates == {"podman", "openshift"}
PodNames == {"p", "q"}
Filters == {"any", "running"}
Nobody == <<"-", "-">>
NoPodman == [status |-> "none", workspace |-> "W"]
NoRes == [fn |-> "none", backend |-> "-", filter |-> "any", target |-> Nobody,
          all |-> {}, queried |-> {}, exc |-> "", exit |-> 0, listed |-> FALSE]

\* The command-line process before it is started.  exit is -1 while the
\* process has not exited.
NoRun == [cmd |-> "none", pc |-> "none", allow_network |-> FALSE,
          atexit |-> FALSE, on_int |-> FALSE, on_term |-> FALSE,
          proxy_container |-> FALSE, running |-> FALSE,
          attached |-> FALSE, session_code |-> 0,
          sig |-> "none", killed |-> FALSE, exit |-> 0 - 1]

\* subprocess.run(timeout=None): the child is waited for without limit.
None == 0 - 1

\* No child process spawned yet.
NoSpawn == [site |-> "none", via_run_oc |-> FALSE, interactive |-> FALSE,
            secret_on |-> {}, timeout_arg |-> None, timeout |-> None,
            duration |-> 0, outcome |-> "none"]

\* No name asked for.  Strings are sequences of characters; "?" stands for
\* a session name not yet computed.
NoNaming == [given |-> <<>>, dir |-> <<>>, hash |-> <<>>, name |-> <<"?">>]

\* No image asked for: no file of the build read, no tag computed.  "-" stands
\* for a tag not computed.
NoFileStat == [exists |-> FALSE, text |-> << >>, mtime |-> 0]
NoTag == [ref |-> <<"-">>, seen |-> << >>]
NoBuild == [config_file |-> NoFileStat, dockerfile |-> NoFileStat,
            base_image |-> << >>, entrypoint |-> NoFileStat,
            pip_install |-> FALSE, listing |-> << >>, platform |-> "",
            first |-> NoTag, tag |-> NoTag]

\* No path encoded.  "?" stands for a value not computed.
NoCoded == [path |-> << >>, encoded |-> <<"?">>, decoded |-> <<"?">>, exc |-> ""]

\* The cluster and the processes before any verb has run.
Quiet ==
    /\ pvcData = [n \in Names |-> NoFile]
    /\ secrets = [n \in Names |-> {}]
    /\ proxy = [n \in Names |-> FALSE]
    /\ workspace = "B1"
    /\ pc = [p \in Procs |-> "idle"]
    /\ call = [p \in Procs |-> NoCall]
    /\ result = [p \in Procs |-> NoResult]
    /\ polls = [p \in Procs |-> 0]
    /\ log = [p \in Procs |-> <<>>]
    /\ created = [n \in Names |-> 0]
    /\ lastDeleted = [p \in Procs |-> "-"]
    /\ kept = [n \in Names |-> NoFile]

Fresh ==
    /\ run = NoRun
    /\ spawn = NoSpawn
    /\ build = NoBuild
    /\ coded = NoCoded
    /\ Quiet

Init ==
    /\ sts = [n \in Names |-> NoSts]
    /\ pod = [n \in Names |-> "none"]
    /\ pvc = [n \in Names |-> "none"]
    /\ pvcData = [n \in Names |-> NoFile]
    /\ secrets = [n \in Names |-> {}]
    /\ netpol = [n \in Names |-> "none"]
    /\ proxy = [n \in Names |-> FALSE]
    /\ workspace = "B1"
    /\ home \in {{}, CredKinds}
    /\ cwd = "W"
    /\ reach = Substrates
    /\ podman = [n \in PodNames |-> NoPodman]
    /\ annot = [n \in Names |-> "W"]
    /\ res = NoRes
    /\ run = NoRun
    /\ spawn = NoSpawn
    /\ naming = NoNaming
    /\ build = NoBuild
    /\ coded = NoCoded
    /\ pc = [p \in Procs |-> "idle"]
    /\ call = [p \in Procs |-> NoCall]
    /\ result = [p \in Procs |-> NoResult]
    /\ polls = [p \in Procs |-> 0]
    /\ log = [p \in Procs |-> <<>>]
    /\ created = [n \in Names |-> 0]
    /\ lastDeleted = [p \in Procs |-> "-"]
    /\ kept = [n \in Names |-> NoFile]

\* ------------------------------------------------------- process helpers
\* log[p] is the sequence of oc commands the current call has issued; "" is
\* a step that issues none.
Issue(l, ev) == IF ev = "" THEN l ELSE Append(l, ev)

\* The process issues the oc command `ev` and continues at label l.
Goto(p, l, ev) ==
    /\ pc' = [pc EXCEPT ![p] = l]
    /\ log' = [log EXCEPT ![p] = Issue(@, ev)]
    /\ UNCHANGED <<call, result, polls>>

\* The call returns normally after issuing `ev`.
Return(p, code, status, ev) ==
    /\ pc' = [pc EXCEPT ![p] = "done"]
    /\ result' = [result EXCEPT ![p] = [exc |-> "", code |-> code, status |-> status]]
    /\ log' = [log EXCEPT ![p] = Issue(@, ev)]
    /\ UNCHANGED <<call, polls>>

\* The call ends with exception e after issuing `ev`.
Raise(p, e, ev) ==
    /\ pc' = [pc EXCEPT ![p] = "done"]
    /\ result' = [result EXCEPT ![p] = [exc |-> e, code |-> 1, status |-> ""]]
    /\ log' = [log EXCEPT ![p] = Issue(@, ev)]
    /\ UNCHANGED <<call, polls>>

\* _get_statefulset(name) is not None
GetStatefulset(n) == sts[n].exists

\* ------------------------------------------------------------ invocation
\* One invocation of a backend verb with its arguments.
Invocation(v, n, b) ==
    [verb |-> v, name |-> n,
     network_restricted |-> (v = "create" /\ b),
     confirm |-> (v = "delete" /\ b),
     sync |-> (v \in {"start", "stop"} /\ b)]

Entry(v) ==
    CASE v = "create" -> "c_check"
      [] v = "delete" -> "d_confirm"
      [] v = "start" -> "s_check"
      [] v = "stop" -> "t_check"
      [] v = "connect" -> "k_pod"

\* Every invocation on the invoked names.
AllCalls ==
    {Invocation(v, n, b) : v \in {"create", "delete", "start", "stop", "connect"},
                           n \in Invoked, b \in BOOLEAN}

\* The invocations of the concurrent specification: confirmed deletes, and
\* start and stop without workspace sync.
RaceCalls ==
    {c \in AllCalls : /\ c.verb # "connect"
                      /\ c.verb = "delete" => c.confirm
                      /\ ~c.sync}

\* A verb is invoked by a process that is not inside another call.
\* `track` records the previous call in lastDeleted.
Begin(p, calls, track) ==
    /\ pc[p] \in {"idle", "done"}
    /\ \E c \in calls :
          /\ call' = [call EXCEPT ![p] = c]
          /\ pc' = [pc EXCEPT ![p] = Entry(c.verb)]
    /\ result' = [result EXCEPT ![p] = NoResult]
    /\ polls' = [polls EXCEPT ![p] = 0]
    /\ log' = [log EXCEPT ![p] = <<>>]
    /\ lastDeleted' = [lastDeleted EXCEPT ![p] =
          IF track /\ pc[p] = "done" /\ call[p].verb = "delete" /\ call[p].confirm
             /\ result[p].exc = ""
          THEN call[p].name ELSE "-"]
    /\ UNCHANGED <<substrate, host, created, kept>>

\* ---------------------------------------------------------------- create
\* create_session, lines 1451-1462: connection and namespace checks, then
\* the existence check on the StatefulSet.
\* Variant: the existence check looks for the session's pod.
CreateRejectsByPod(n) == pod[n] # "none"

CreateRejects(n) == GetStatefulset(n)

CreateCheck(p) ==
    /\ pc[p] = "c_check"
    /\ \E loggedIn \in BOOLEAN :
         IF ~loggedIn THEN Raise(p, "OcNotLoggedInError", "whoami")
         ELSE IF CreateRejects(call[p].name)
              THEN Raise(p, "SessionExistsError", "get_statefulset")
              ELSE Goto(p, "c_gcloud", "get_statefulset")
    /\ UNCHANGED <<substrate, host, history>>

\* _create_credentials_secret / _create_gitconfig_configmap /
\* _create_claude_secret: the object is applied only when its source exists
\* under $HOME; an absent source issues no command.
CreateCredential(p, at, kind, next) ==
    /\ pc[p] = at
    /\ IF kind \in home
       THEN /\ secrets' = [secrets EXCEPT ![call[p].name] = @ \cup {kind}]
            /\ Goto(p, next, "apply_" \o kind)
       ELSE /\ UNCHANGED secrets
            /\ Goto(p, next, "")
    /\ UNCHANGED <<sts, pod, pvc, pvcData, netpol, proxy, host, history>>

CreateGcloud(p) == CreateCredential(p, "c_gcloud", "gcloud", "c_gitconfig")
CreateGitconfig(p) == CreateCredential(p, "c_gitconfig", "gitconfig", "c_claude")
CreateClaude(p) == CreateCredential(p, "c_claude", "claude", "c_netpol")

\* Variant: the confining policy is applied whatever the option says.
PolicyAlwaysRestricted(network_restricted) ==
    IF network_restricted THEN "restricted" ELSE "restricted"

\* The egress policy create_session applies for the session.
PolicyFor(network_restricted) ==
    IF network_restricted THEN "restricted" ELSE "permissive"

\* spec.egress of NetworkPolicy paude-egress-<n>, the list of its rules.  A
\* rule without ports allows every port, a rule without `to` every
\* destination; a destination is an ipBlock or a podSelector.
\* _ensure_network_policy: DNS to anywhere, TCP 443 to seven CIDR blocks.
\* _ensure_network_policy_permissive: the one empty rule.
AllowedCidrs ==
    {"142.250.0.0/16", "172.217.0.0/16", "216.58.0.0/16", "172.253.0.0/16",
     "74.125.0.0/16", "104.18.0.0/16", "172.66.0.0/16"}

EgressRules(policy) ==
    CASE policy = "restricted" ->
            << [ports |-> {<<"UDP", 53>>, <<"TCP", 53>>}, to |-> {}],
               [ports |-> {<<"TCP", 443>>},
                to |-> {[kind |-> "ipBlock", value |-> c] : c \in AllowedCidrs}] >>
      [] policy = "permissive" -> << [ports |-> {}, to |-> {}] >>
      [] OTHER -> << >>

\* The proxy settings create_session adds to the workload's environment:
\* session_env is config.env plus PAUDE_CLAUDE_ARGS, whatever
\* network_restricted is.
ProxyVars == {"HTTP_PROXY", "HTTPS_PROXY", "http_proxy", "https_proxy"}

SessionEnv(env, args) ==
    env \cup (IF args THEN {"PAUDE_CLAUDE_ARGS"} ELSE {})

CreateNetpol(p) ==
    /\ pc[p] = "c_netpol"
    /\ netpol' = [netpol EXCEPT ![call[p].name] = PolicyFor(call[p].network_restricted)]
    /\ Goto(p, "c_apply", "apply_networkpolicy")
    /\ UNCHANGED <<sts, pod, pvc, pvcData, secrets, proxy, host, history>>

\* _generate_statefulset_spec: the object is generated with replicas 0.
\* Variant: the object is generated with replicas 1.
StatefulsetSpecStarted(network_restricted) ==
    [exists |-> TRUE, replicas |-> 1, restricted |-> network_restricted]

StatefulsetSpec(network_restricted) ==
    [exists |-> TRUE, replicas |-> 0, restricted |-> network_restricted]

\* `oc apply` creates the object or, when it exists, reconfigures it to the
\* manifest; either way the command succeeds and create returns the Session.
CreateApply(p) ==
    /\ pc[p] = "c_apply"
    /\ sts' = [sts EXCEPT ![call[p].name] = StatefulsetSpec(call[p].network_restricted)]
    /\ created' = [created EXCEPT ![call[p].name] = @ + 1]
    /\ Return(p, 0, "stopped", "apply_statefulset")
    /\ UNCHANGED <<pod, pvc, pvcData, secrets, netpol, proxy, host, lastDeleted, kept>>

\* get_session, lines 1725-1734: the status is derived from spec.replicas and
\* status.readyReplicas (1 exactly when the session's pod is running).
ReadyReplicas(n) == IF pod[n] = "Running" THEN 1 ELSE 0

\* Variant: the status is derived from spec.replicas alone.
SessionStatusBySpec(n) == IF sts[n].replicas = 0 THEN "stopped" ELSE "running"

SessionStatus(n) ==
    IF sts[n].replicas = 0 THEN "stopped"
    ELSE IF ReadyReplicas(n) > 0 THEN "running"
    ELSE "pending"

\* The session's state: Absent without a StatefulSet, else get_session's
\* status, with Error for a scaled-up session whose pod reports Failed
\* (the phase _wait_for_pod_ready gives up on).
SessionState(n) ==
    IF ~sts[n].exists THEN "Absent"
    ELSE IF SessionStatus(n) = "pending" /\ pod[n] = "Failed" THEN "Error"
    ELSE SessionStatus(n)

\* ---------------------------------------------------------------- delete
\* delete_session, line 1531: the confirm guard.
\* Variant: the guard never fires.
DeleteNeverRefused(confirm) == confirm /\ ~confirm

DeleteRefused(confirm) == ~confirm

DeleteConfirm(p) ==
    /\ pc[p] = "d_confirm"
    /\ IF DeleteRefused(call[p].confirm)
       THEN Raise(p, "ValueError", "")
       ELSE Goto(p, "d_check", "")
    /\ UNCHANGED <<substrate, host, history>>

DeleteCheck(p) ==
    /\ pc[p] = "d_check"
    /\ IF GetStatefulset(call[p].name)
       THEN Goto(p, "d_scale", "get_statefulset")
       ELSE Raise(p, "SessionNotFoundError", "get_statefulset")
    /\ UNCHANGED <<substrate, host, history>>

\* Variant: the scale command always asks for one replica.
ScaledToOne(n, r) == [sts EXCEPT ![n].replicas = IF sts[n].exists THEN 1 ELSE @]

\* `oc scale statefulset --replicas=r`: fails when the object is absent.
Scaled(n, r) == [sts EXCEPT ![n].replicas = IF sts[n].exists THEN r ELSE @]

\* check=False: a failing scale is ignored.
DeleteScale(p) ==
    /\ pc[p] = "d_scale"
    /\ sts' = Scaled(call[p].name, 0)
    /\ Goto(p, "d_sts", "scale_0")
    /\ UNCHANGED <<pod, pvc, pvcData, secrets, netpol, proxy, host, history>>

\* `oc delete statefulset paude-<n>`
\* Variant: the object survives the delete command.
StsKept(n) == [sts EXCEPT ![n].replicas = 0]

StsDeleted(n) == [sts EXCEPT ![n] = NoSts]

DeleteSts(p) ==
    /\ pc[p] = "d_sts"
    /\ sts' = StsDeleted(call[p].name)
    /\ created' = [created EXCEPT ![call[p].name] = IF sts'[call[p].name].exists THEN @ ELSE 0]
    /\ Goto(p, "d_pvc", "delete_statefulset")
    /\ UNCHANGED <<pod, pvc, pvcData, secrets, netpol, proxy, host, lastDeleted, kept>>

\* Variant: the claim is left alone.
DeletePvcSkipped(p) ==
    /\ pc[p] = "d_pvc"
    /\ Goto(p, "d_pvc_wait", "delete_pvc")
    /\ UNCHANGED <<substrate, host, history>>

\* `oc delete pvc workspace-paude-<n>-0`: a claim no pod mounts is removed at
\* once; a mounted claim is only marked for deletion (PVC protection) and
\* the command keeps waiting for it to go.
DeletePvc(p) ==
    /\ pc[p] = "d_pvc"
    /\ LET n == call[p].name IN
       IF pvc[n] = "bound" /\ pod[n] = "none"
       THEN /\ pvc' = [pvc EXCEPT ![n] = "none"]
            /\ pvcData' = [pvcData EXCEPT ![n] = NoFile]
            /\ kept' = [kept EXCEPT ![n] = NoFile]
       ELSE /\ pvc' = [pvc EXCEPT ![n] = IF @ = "none" THEN "none" ELSE "terminating"]
            /\ UNCHANGED <<pvcData, kept>>
    /\ Goto(p, "d_pvc_wait", "delete_pvc")
    /\ UNCHANGED <<sts, pod, secrets, netpol, proxy, host, created, lastDeleted>>

\* The delete command returns once the claim is gone ...
DeletePvcDone(p) ==
    /\ pc[p] = "d_pvc_wait"
    /\ pvc[call[p].name] # "terminating"
    /\ Goto(p, "d_label_id", "")
    /\ UNCHANGED <<substrate, host, history>>

\* ... or _run_oc's 30 s timeout expires first: OcTimeoutError is raised
\* whatever `check` is, and delete_session does not catch it.
DeletePvcTimeout(p) ==
    /\ pc[p] = "d_pvc_wait"
    /\ pvc[call[p].name] = "terminating"
    /\ Raise(p, "OcTimeoutError", "")
    /\ UNCHANGED <<substrate, host, history>>

\* `oc delete secret,configmap,networkpolicy -l <label>=<n>`: every object
\* create_session applies carries both session-id=<n> and
\* paude.io/session-name=<n>, so either selector matches all of them.
\* The labels on the Secrets, the ConfigMap and the NetworkPolicy of session m.
SessionLabels(m) == [app |-> "paude", session_id |-> m, session_name |-> m]

\* Variant: the selector is `-l app=paude`.
SelectedByApp(value) == {m \in Names : SessionLabels(m).app = "paude"}

\* The sessions whose objects `-l session-id=<value>` or
\* `-l paude.io/session-name=<value>` selects.
Selected(value) ==
    {m \in Names : SessionLabels(m).session_id = value
                   \/ SessionLabels(m).session_name = value}

LabelledSecretsDeleted(n) ==
    [m \in Names |-> IF m \in Selected(n) THEN {} ELSE secrets[m]]
\* Variant: the selector does not match the policy.
LabelledNetpolKept(n) == [netpol EXCEPT ![n] = @]

LabelledNetpolDeleted(n) ==
    [m \in Names |-> IF m \in Selected(n) THEN "none" ELSE netpol[m]]

DeleteBySessionId(p) ==
    /\ pc[p] = "d_label_id"
    /\ secrets' = LabelledSecretsDeleted(call[p].name)
    /\ netpol' = LabelledNetpolDeleted(call[p].name)
    /\ Goto(p, "d_label_name", "delete_by_session_id")
    /\ UNCHANGED <<sts, pod, pvc, pvcData, proxy, host, history>>

DeleteBySessionName(p) ==
    /\ pc[p] = "d_label_name"
    /\ secrets' = LabelledSecretsDeleted(call[p].name)
    /\ netpol' = LabelledNetpolDeleted(call[p].name)
    /\ Return(p, 0, "", "delete_by_session_name")
    /\ UNCHANGED <<sts, pod, pvc, pvcData, proxy, host, history>>

\* ----------------------------------------------------------- environment
\* StatefulSet controller: replicas=1 and no pod: the pod is created, and
\* the volumeClaimTemplate's claim is created unless it already exists.
PodCreate(n) ==
    /\ sts[n].exists /\ sts[n].replicas = 1
    /\ pod[n] = "none" /\ pvc[n] # "terminating"
    /\ pod' = [pod EXCEPT ![n] = "Pending"]
    /\ pvc' = [pvc EXCEPT ![n] = "bound"]
    /\ UNCHANGED <<sts, pvcData, secrets, netpol, proxy, host, procs, history>>

PodRun(n) ==
    /\ pod[n] = "Pending"
    /\ pod' = [pod EXCEPT ![n] = "Running"]
    /\ UNCHANGED <<sts, pvc, pvcData, secrets, netpol, proxy, host, procs, history>>

PodFail(n) ==
    /\ pod[n] \in {"Pending", "Running"}
    /\ pod' = [pod EXCEPT ![n] = "Failed"]
    /\ UNCHANGED <<sts, pvc, pvcData, secrets, netpol, proxy, host, procs, history>>

\* Scale-down or loss of the owner: the pod goes away; a claim marked for
\* deletion goes with its last pod.
PodTerminate(n) ==
    /\ pod[n] # "none"
    /\ ~sts[n].exists \/ sts[n].replicas = 0
    /\ pod' = [pod EXCEPT ![n] = "none"]
    /\ IF pvc[n] = "terminating"
       THEN /\ pvc' = [pvc EXCEPT ![n] = "none"]
            /\ pvcData' = [pvcData EXCEPT ![n] = NoFile]
            /\ kept' = [kept EXCEPT ![n] = NoFile]
       ELSE UNCHANGED <<pvc, pvcData, kept>>
    /\ UNCHANGED <<sts, secrets, netpol, proxy, host, procs, created, lastDeleted>>

\* The assistant in the running pod writes the tracked path under /pvc/workspace.
WorkloadWrite(n) ==
    /\ pod[n] = "Running"
    /\ \E b \in Contents :
         /\ pvcData' = [pvcData EXCEPT ![n] = b]
         /\ kept' = [kept EXCEPT ![n] = IF @ = NoFile THEN @ ELSE b]
    /\ UNCHANGED <<sts, pod, pvc, secrets, netpol, proxy, host, procs, created,
                   lastDeleted>>

\* ------------------------------------------------------------ sync_session
\* sync_session, lines 1769-1771: SessionNotFoundError when the StatefulSet
\* is gone.  stop_session catches it (`caught`), start_session does not.
SyncGetSts(p, at, next, caught, cont) ==
    /\ pc[p] = at
    /\ IF GetStatefulset(call[p].name) THEN Goto(p, next, "get_statefulset")
       ELSE IF caught THEN Goto(p, cont, "get_statefulset")
       ELSE Raise(p, "SessionNotFoundError", "get_statefulset")
    /\ UNCHANGED <<substrate, host, history>>

\* lines 1787-1805: sync returns without copying unless the pod is Running.
SyncGetPod(p, at, next, cont) ==
    /\ pc[p] = at
    /\ IF pod[call[p].name] = "Running" THEN Goto(p, next, "get_pod")
       ELSE Goto(p, cont, "get_pod")
    /\ UNCHANGED <<substrate, host, history>>

\* `oc rsync <workspace>/ <pod>:/pvc/workspace` copies every local file over
\* the remote one of the same path and deletes nothing.
Pushed(n) == [pvcData EXCEPT ![n] = IF workspace # NoFile THEN workspace ELSE @]

\* `oc rsync <pod>:/pvc/workspace/ <workspace>`
Pulled(n) == IF pvcData[n] # NoFile THEN pvcData[n] ELSE workspace

\* lines 1823-1848: the rsync runs with check=False under _run_oc's default
\* timeout.  It copies ("ok"), exits non-zero ("failed", ignored), or runs
\* into the timeout (OcTimeoutError, caught only by stop_session).
SyncRsync(p, at, direction, caught, cont) ==
    /\ pc[p] = at
    /\ LET n == call[p].name IN
       \E outcome \in {"ok", "failed", "timeout"} :
         /\ outcome = "ok" => pod[n] = "Running"
         /\ IF outcome = "ok" /\ direction = "remote"
            THEN /\ pvcData' = Pushed(n)
                 /\ UNCHANGED workspace
            ELSE IF outcome = "ok" /\ direction = "local"
            THEN /\ workspace' = Pulled(n)
                 /\ UNCHANGED pvcData
            ELSE UNCHANGED <<pvcData, workspace>>
         /\ IF outcome = "timeout" /\ ~caught
            THEN Raise(p, "OcTimeoutError", "rsync_" \o direction)
            ELSE Goto(p, cont, "rsync_" \o direction)
    /\ UNCHANGED <<sts, pod, pvc, secrets, netpol, proxy, home, discovery, run, spawn, naming, build, coded, created,
                   lastDeleted, kept>>

\* ----------------------------------------------------------------- start
StartCheck(p) ==
    /\ pc[p] = "s_check"
    /\ IF GetStatefulset(call[p].name)
       THEN Goto(p, "s_scale", "get_statefulset")
       ELSE Raise(p, "SessionNotFoundError", "get_statefulset")
    /\ UNCHANGED <<substrate, host, history>>

\* _scale_statefulset(name, 1), check=True: a failing scale raises.
StartScale(p) ==
    /\ pc[p] = "s_scale"
    /\ sts' = Scaled(call[p].name, 1)
    /\ IF sts[call[p].name].exists
       THEN Goto(p, "s_wait", "scale_1")
       ELSE Raise(p, "OpenShiftError", "scale_1")
    /\ UNCHANGED <<pod, pvc, pvcData, secrets, netpol, proxy, host, history>>

\* After the readiness wait: sync when asked, then connect.
AfterReady(sync) == IF sync THEN "s_sync_sts" ELSE "k_pod"

\* Variant: a Failed phase is polled like any phase other than Running.
StartPollPastFailure(p) ==
    /\ pc[p] = "s_wait"
    /\ polls[p] < MaxPolls
    /\ IF pod[call[p].name] = "Running"
       THEN Goto(p, AfterReady(call[p].sync), "get_pod")
       ELSE /\ polls' = [polls EXCEPT ![p] = @ + 1]
            /\ log' = [log EXCEPT ![p] = Issue(@, "get_pod")]
            /\ UNCHANGED <<pc, call, result>>
    /\ UNCHANGED <<substrate, host, history>>

\* _wait_for_pod_ready: one poll of the pod's phase.  Running ends the wait,
\* Failed raises PodNotReadyError, which start_session turns into return 1.
StartPoll(p) ==
    /\ pc[p] = "s_wait"
    /\ polls[p] < MaxPolls
    /\ LET n == call[p].name IN
       IF pod[n] = "Running"
       THEN Goto(p, AfterReady(call[p].sync), "get_pod")
       ELSE IF pod[n] = "Failed"
       THEN Return(p, 1, "", "get_pod")
       ELSE /\ polls' = [polls EXCEPT ![p] = @ + 1]
            /\ log' = [log EXCEPT ![p] = Issue(@, "get_pod")]
            /\ UNCHANGED <<pc, call, result>>
    /\ UNCHANGED <<substrate, host, history>>

\* Variant: the loop has no budget and goes on waiting.
StartWaitUnbounded(p) ==
    /\ pc[p] = "s_wait"
    /\ polls[p] >= MaxPolls
    /\ UNCHANGED vars

\* The budget is exhausted: PodNotReadyError, start_session returns 1.
StartWaitExpired(p) ==
    /\ pc[p] = "s_wait"
    /\ polls[p] >= MaxPolls
    /\ Return(p, 1, "", "")
    /\ UNCHANGED <<substrate, host, history>>

StartSyncSts(p) == SyncGetSts(p, "s_sync_sts", "s_sync_pod", FALSE, "k_pod")
StartSyncPod(p) == SyncGetPod(p, "s_sync_pod", "s_sync_push", "k_pod")
StartSyncPush(p) == SyncRsync(p, "s_sync_push", "remote", FALSE, "k_pod")

\* --------------------------------------------------------------- connect
\* connect_session: _get_pod_for_session, then the phase check, then the
\* interactive exec whose exit code is returned.
ConnectPod(p) ==
    /\ pc[p] = "k_pod"
    /\ IF pod[call[p].name] = "none"
       THEN Return(p, 1, "", "get_pod")
       ELSE Goto(p, "k_phase", "get_pod")
    /\ UNCHANGED <<substrate, host, history>>

ConnectPhase(p) ==
    /\ pc[p] = "k_phase"
    /\ IF pod[call[p].name] = "Running"
       THEN Goto(p, "k_exec", "get_pod")
       ELSE Return(p, 1, "", "get_pod")
    /\ UNCHANGED <<substrate, host, history>>

ConnectExec(p) ==
    /\ pc[p] = "k_exec"
    /\ \E code \in ExitCodes :
         /\ pod[call[p].name] # "Running" => code = 1
         /\ Return(p, code, "", "exec")
    /\ UNCHANGED <<substrate, host, history>>

\* ------------------------------------------------------------------ stop
StopCheck(p) ==
    /\ pc[p] = "t_check"
    /\ IF GetStatefulset(call[p].name)
       THEN Goto(p, IF call[p].sync THEN "t_sync_sts" ELSE "t_scale", "get_statefulset")
       ELSE Raise(p, "SessionNotFoundError", "get_statefulset")
    /\ UNCHANGED <<substrate, host, history>>

StopSyncSts(p) == SyncGetSts(p, "t_sync_sts", "t_sync_pod", TRUE, "t_scale")
StopSyncPod(p) == SyncGetPod(p, "t_sync_pod", "t_sync_pull", "t_scale")
\* Variant: the rsync is left running and the scale-down overtakes it.
StopSyncPullOvertaken(p) ==
    /\ pc[p] = "t_sync_pull"
    /\ sts' = Scaled(call[p].name, 0)
    /\ pc' = [pc EXCEPT ![p] = "t_scale"]
    /\ log' = [log EXCEPT ![p] = @ \o <<"scale_0", "rsync_local">>]
    /\ UNCHANGED <<call, result, polls>>
    /\ UNCHANGED <<pod, pvc, pvcData, secrets, netpol, proxy, host, history>>

StopSyncPull(p) == SyncRsync(p, "t_sync_pull", "local", TRUE, "t_scale")

\* What stop_session does to the volume: nothing.
\* Variant: stop deletes the claim.
StopDropsVolume(n) == IF pvc[n] = "bound" THEN "none" ELSE pvc[n]

StopVolume(n) == pvc[n]

\* _scale_statefulset(name, 0), check=True.
StopScale(p) ==
    /\ pc[p] = "t_scale"
    /\ LET n == call[p].name IN
       /\ sts' = Scaled(n, 0)
       /\ pvc' = [pvc EXCEPT ![n] = StopVolume(n)]
       /\ IF sts[n].exists
          THEN /\ Return(p, 0, "", "scale_0")
               /\ kept' = [kept EXCEPT ![n] = IF pvc'[n] = "bound" THEN pvcData[n] ELSE NoFile]
          ELSE /\ Raise(p, "OpenShiftError", "scale_0")
               /\ UNCHANGED kept
    /\ UNCHANGED <<pod, pvcData, secrets, netpol, proxy, host, created, lastDeleted>>

\* ------------------------------------------------------------- discovery
\* list_sessions of either backend: the names of the sessions it holds.
ListSessions(b) ==
    IF b = "podman" THEN {n \in PodNames : podman[n].status # "none"}
    ELSE {n \in Names : sts[n].exists}

StatusOf(b, n) == IF b = "podman" THEN podman[n].status ELSE SessionStatus(n)

WorkspaceOf(b, n) == IF b = "podman" THEN podman[n].workspace ELSE annot[n]

\* find_session_for_workspace: the first listed session whose workspace is
\* the given directory; any of the matching sessions may be listed first.
\* "-" stands for None.
FindSessionForWorkspace(b, dir) ==
    LET hits == {n \in ListSessions(b) : WorkspaceOf(b, n) = dir}
    IN  IF hits = {} THEN {"-"} ELSE hits

\* `status_filter is None or session.status == status_filter`
FilterOk(b, n, f) == f = "any" \/ StatusOf(b, n) = f

\* A backend that is not installed or not reachable raises from its calls.
Raises(b) == b \notin reach

\* Variant: the handler lets the exception through.
Reraised(e) == e

\* `except Exception: pass` around each backend of find_workspace_session
\* and collect_all_sessions.
Swallowed(e) == IF e = "" THEN e ELSE ""

\* Variant: the cluster's match is returned when there is one.
FirstHitClusterFirst(pHit, oHit) ==
    IF oHit THEN "openshift" ELSE IF pHit THEN "podman" ELSE "-"

\* find_workspace_session: Podman is asked first and its match returned;
\* the cluster is asked only without one.
FirstHit(pHit, oHit) ==
    IF pHit THEN "podman" ELSE IF oHit THEN "openshift" ELSE "-"

FindWorkspaceSession ==
    \E f \in Filters, pm \in FindSessionForWorkspace("podman", cwd),
       om \in FindSessionForWorkspace("openshift", cwd) :
        LET pHit == ~Raises("podman") /\ pm # "-" /\ FilterOk("podman", pm, f)
            oHit == ~Raises("openshift") /\ om # "-" /\ FilterOk("openshift", om, f)
            hit  == FirstHit(pHit, oHit)
            pExc == Swallowed(IF Raises("podman") THEN "Exception" ELSE "")
            oExc == IF hit = "podman" THEN ""
                    ELSE Swallowed(IF Raises("openshift") THEN "Exception" ELSE "")
        IN  /\ res' = [NoRes EXCEPT
                  !.fn = "find", !.filter = f,
                  !.exc = IF pExc # "" THEN pExc ELSE oExc,
                  !.target = IF pExc # "" \/ oExc # "" THEN Nobody
                             ELSE IF hit = "podman" THEN <<hit, pm>>
                             ELSE IF hit = "openshift" THEN <<hit, om>>
                             ELSE Nobody,
                  !.queried = IF hit = "podman" \/ pExc # "" THEN {"podman"}
                              ELSE Substrates]
            /\ UNCHANGED <<substrate, workspace, home, cwd, reach, podman, annot, run, spawn, naming, build, coded,
                           procs, history>>

\* collect_all_sessions: the sessions of every backend that answers, filtered.
Listed(b, f) ==
    IF Raises(b) THEN {}
    ELSE {<<b, n>> : n \in {m \in ListSessions(b) : FilterOk(b, m, f)}}

CollectAllSessions ==
    \E f \in Filters :
        LET pExc == Swallowed(IF Raises("podman") THEN "Exception" ELSE "")
            oExc == Swallowed(IF Raises("openshift") THEN "Exception" ELSE "")
        IN  /\ res' = [NoRes EXCEPT
                  !.fn = "collect", !.filter = f,
                  !.exc = IF pExc # "" THEN pExc ELSE oExc,
                  !.all = IF pExc # "" THEN {}
                          ELSE IF oExc # "" THEN Listed("podman", f)
                          ELSE Listed("podman", f) \cup Listed("openshift", f),
                  !.queried = IF pExc # "" THEN {"podman"} ELSE Substrates]
            /\ UNCHANGED <<substrate, workspace, home, cwd, reach, podman, annot, run, spawn, naming, build, coded,
                           procs, history>>

\* The fallback both resolvers share: without a workspace match the
\* backend's sessions (of the wanted status) are listed; a single one is
\* taken, several are printed, none is reported.
Fallback(b, f) ==
    LET sessions == {n \in ListSessions(b) : FilterOk(b, n, f)}
    IN  IF Cardinality(sessions) = 1
        THEN [target |-> <<b, CHOOSE n \in sessions : TRUE>>, listed |-> FALSE]
        ELSE [target |-> Nobody, listed |-> sessions # {}]

\* Workspace match first, else the fallback.
Resolved(b, f, m) ==
    IF m # "-" /\ FilterOk(b, m, f)
    THEN [target |-> <<b, m>>, listed |-> FALSE]
    ELSE Fallback(b, f)

\* resolve_session_for_backend: the lookup on the given backend is not
\* guarded, so a backend that does not answer raises.
ResolveSessionForBackend ==
    \E b \in Substrates, f \in Filters :
      \E m \in FindSessionForWorkspace(b, cwd) :
        LET r == Resolved(b, f, m)
        IN  /\ res' = [NoRes EXCEPT
                  !.fn = "resolve", !.backend = b, !.filter = f,
                  !.exc = IF Raises(b) THEN "Exception" ELSE "",
                  !.target = IF Raises(b) THEN Nobody ELSE r.target,
                  !.listed = ~Raises(b) /\ r.listed,
                  !.exit = IF Raises(b) \/ r.target = Nobody THEN 1 ELSE 0,
                  !.queried = {b}]
            /\ UNCHANGED <<substrate, workspace, home, cwd, reach, podman, annot, run, spawn, naming, build, coded,
                           procs, history>>

\* session_start without a name: `--backend` chooses the one backend that
\* is searched, Podman when the option is absent.
BackendFor(option) == IF option = "-" THEN "podman" ELSE option

SessionStart ==
    \E option \in Substrates \cup {"-"} :
      \E m \in FindSessionForWorkspace(BackendFor(option), cwd) :
        LET b == BackendFor(option)
            r == Resolved(b, "any", m)
        IN  /\ res' = [NoRes EXCEPT
                  !.fn = "start", !.backend = option,
                  !.exc = IF Raises(b) THEN "Exception" ELSE "",
                  !.target = IF Raises(b) THEN Nobody ELSE r.target,
                  !.listed = ~Raises(b) /\ r.listed,
                  !.exit = IF Raises(b) \/ r.target = Nobody THEN 1 ELSE 0,
                  !.queried = {b}]
            /\ UNCHANGED <<substrate, workspace, home, cwd, reach, podman, annot, run, spawn, naming, build, coded,
                           procs, history>>

\* session_stop without a name: the workspace match of the chosen backend
\* is taken as it is (`if session:`), and only without one are the running
\* sessions listed.
StopTarget(b, m) ==
    IF m # "-" THEN [target |-> <<b, m>>, listed |-> FALSE]
    ELSE Fallback(b, "running")

SessionStop ==
    \E option \in Substrates \cup {"-"} :
      \E m \in FindSessionForWorkspace(BackendFor(option), cwd) :
        LET b == BackendFor(option)
            r == StopTarget(b, m)
        IN  /\ res' = [NoRes EXCEPT
                  !.fn = "stop", !.backend = option,
                  !.exc = IF Raises(b) THEN "Exception" ELSE "",
                  !.target = IF Raises(b) THEN Nobody ELSE r.target,
                  !.listed = ~Raises(b) /\ r.listed,
                  !.exit = IF Raises(b) \/ r.target = Nobody THEN 1 ELSE 0,
                  !.queried = {b}]
            /\ UNCHANGED <<substrate, workspace, home, cwd, reach, podman, annot, run, spawn, naming, build, coded,
                           procs, history>>

\* session_connect without a name: the workspace match when it is running
\* (`if session and session.status == "running"`), else the one running
\* session of the backend.
SessionConnect ==
    \E option \in Substrates \cup {"-"} :
      \E m \in FindSessionForWorkspace(BackendFor(option), cwd) :
        LET b == BackendFor(option)
            r == Resolved(b, "running", m)
        IN  /\ res' = [NoRes EXCEPT
                  !.fn = "connect", !.backend = option,
                  !.exc = IF Raises(b) THEN "Exception" ELSE "",
                  !.target = IF Raises(b) THEN Nobody ELSE r.target,
                  !.listed = ~Raises(b) /\ r.listed,
                  !.exit = IF Raises(b) \/ r.target = Nobody THEN 1 ELSE 0,
                  !.queried = {b}]
            /\ UNCHANGED <<substrate, workspace, home, cwd, reach, podman, annot, run, spawn, naming, build, coded,
                           procs, history>>

\* The local sessions Podman can hold: each stopped or running and bound to
\* a directory, at most one per directory (its lookup by workspace returns
\* "the unique match").
PodmanSessions ==
    {ps \in [PodNames -> [status : {"none", "stopped", "running"}, workspace : Dirs]] :
        /\ \A n \in PodNames : ps[n].status = "none" => ps[n] = NoPodman
        /\ \A m, n \in PodNames :
              (ps[m].status # "none" /\ ps[n].status # "none"
               /\ ps[m].workspace = ps[n].workspace) => m = n}

\* The sessions discovery can meet: local sessions in any state, at most one
\* per workspace; cluster sessions absent, stopped (never started) or
\* running; either substrate answering or not.
DiscInit ==
    /\ Fresh
    /\ home = {}
    /\ cwd \in Dirs
    /\ reach \in SUBSET Substrates
    /\ podman \in PodmanSessions
    /\ annot \in [Names -> Dirs]
    /\ \E st \in [Names -> {"Absent", "stopped", "running"}] :
          /\ sts = [n \in Names |-> IF st[n] = "Absent" THEN NoSts
                       ELSE [exists |-> TRUE,
                             replicas |-> IF st[n] = "running" THEN 1 ELSE 0,
                             restricted |-> FALSE]]
          /\ pod = [n \in Names |-> IF st[n] = "running" THEN "Running" ELSE "none"]
          /\ pvc = [n \in Names |-> IF st[n] = "running" THEN "bound" ELSE "none"]
          /\ netpol = [n \in Names |-> IF st[n] = "Absent" THEN "none" ELSE "permissive"]
          /\ \A n \in Names : st[n] = "Absent" => annot[n] = "W"
    /\ res = NoRes
    /\ naming = NoNaming

\* --------------------------------------------------------- specification
Create(p) ==
    \/ CreateCheck(p) \/ CreateGcloud(p) \/ CreateGitconfig(p) \/ CreateClaude(p)
    \/ CreateNetpol(p) \/ CreateApply(p)

Delete(p) ==
    \/ DeleteConfirm(p) \/ DeleteCheck(p) \/ DeleteScale(p) \/ DeleteSts(p)
    \/ DeletePvc(p) \/ DeletePvcDone(p) \/ DeletePvcTimeout(p)
    \/ DeleteBySessionId(p) \/ DeleteBySessionName(p)

Start(p) ==
    \/ StartCheck(p) \/ StartScale(p) \/ StartPoll(p) \/ StartWaitExpired(p)
    \/ StartSyncSts(p) \/ StartSyncPod(p) \/ StartSyncPush(p)

Connect(p) == ConnectPod(p) \/ ConnectPhase(p) \/ ConnectExec(p)

Stop(p) ==
    \/ StopCheck(p) \/ StopSyncSts(p) \/ StopSyncPod(p) \/ StopSyncPull(p)
    \/ StopScale(p)

Controller(n) == PodCreate(n) \/ PodRun(n) \/ PodFail(n) \/ PodTerminate(n)

\* Two paude processes against one namespace, each step one oc command.
RaceStep(p) ==
    \/ Begin(p, RaceCalls, FALSE) \/ Create(p) \/ Delete(p)
    \/ StartCheck(p) \/ StartScale(p) \/ StartPoll(p) \/ StartWaitExpired(p)
    \/ Connect(p) \/ StopCheck(p) \/ StopScale(p)

Next == (\E p \in Procs : RaceStep(p)) \/ (\E n \in Names : Controller(n))
Spec == Init /\ [][Next]_vars

\* One paude process: verbs run one after another, with every option, and
\* the workload writes to its volume.
Step(p) ==
    \/ Begin(p, AllCalls, TRUE) \/ Create(p) \/ Delete(p) \/ Start(p) \/ Connect(p)
    \/ Stop(p)

SeqNext == Step(1) \/ (\E n \in Names : Controller(n) \/ WorkloadWrite(n))
SeqSpec == Init /\ [][SeqNext]_vars

\* The single process working on session "a" beside a running session "b"
\* of the same namespace, created with credentials and a confining policy.
FrameInit ==
    /\ sts = [n \in Names |-> IF n = "b"
                 THEN [exists |-> TRUE, replicas |-> 1, restricted |-> TRUE] ELSE NoSts]
    /\ pod = [n \in Names |-> IF n = "b" THEN "Running" ELSE "none"]
    /\ pvc = [n \in Names |-> IF n = "b" THEN "bound" ELSE "none"]
    /\ pvcData = [n \in Names |-> IF n = "b" THEN "B2" ELSE NoFile]
    /\ secrets = [n \in Names |-> IF n = "b" THEN CredKinds ELSE {}]
    /\ netpol = [n \in Names |-> IF n = "b" THEN "restricted" ELSE "none"]
    /\ proxy = [n \in Names |-> FALSE]
    /\ workspace = "B1"
    /\ home \in {{}, CredKinds}
    /\ cwd = "W"
    /\ reach = Substrates
    /\ podman = [n \in PodNames |-> NoPodman]
    /\ annot = [n \in Names |-> IF n = "b" THEN "W2" ELSE "W"]
    /\ res = NoRes
    /\ run = NoRun /\ spawn = NoSpawn /\ naming = NoNaming
    /\ build = NoBuild /\ coded = NoCoded
    /\ pc = [p \in Procs |-> "idle"]
    /\ call = [p \in Procs |-> NoCall]
    /\ result = [p \in Procs |-> NoResult]
    /\ polls = [p \in Procs |-> 0]
    /\ log = [p \in Procs |-> <<>>]
    /\ created = [n \in Names |-> IF n = "b" THEN 1 ELSE 0]
    /\ lastDeleted = [p \in Procs |-> "-"]
    /\ kept = [n \in Names |-> NoFile]

FrameSpec == FrameInit /\ [][SeqNext]_vars

\* The single process under a scheduler that keeps running it: a readiness
\* wait that can poll or give up eventually does.
FairSeqSpec == SeqSpec /\ WF_vars(StartPoll(1)) /\ WF_vars(StartWaitExpired(1))

\* create_session ends part-way: one of its `oc apply` commands fails
\* (check=True raises OpenShiftError or OcTimeoutError) or the process is
\* cancelled.  Nothing that was applied is rolled back.
CreateInterrupted(p) ==
    /\ pc[p] \in {"c_gcloud", "c_gitconfig", "c_claude", "c_netpol", "c_apply"}
    /\ Raise(p, "OpenShiftError", "")
    /\ UNCHANGED <<substrate, host, history>>

\* The single process, with creates that may end part-way.
PartialNext == SeqNext \/ CreateInterrupted(1)
PartialSpec == Init /\ [][PartialNext]_vars

\* Discovery run against any population of sessions.
DiscNext ==
    \/ FindWorkspaceSession \/ CollectAllSessions \/ ResolveSessionForBackend
    \/ SessionStart \/ SessionStop \/ SessionConnect
DiscSpec == DiscInit /\ [][DiscNext]_vars

\* ---------------------------------------------------------- command line
\* One run of the command line: `paude` (_run_podman_backend, the ephemeral
\* local session with its egress proxy) or `paude start` (session_start).
\* SIGINT or SIGTERM may arrive between any two steps.
rest == <<substrate, workspace, home, discovery, spawn, naming, build, coded, procs, history>>

\* cleanup(): the container named by proxy_container is killed.
Cleanup(r) == [r EXCEPT !.running = IF r.proxy_container THEN FALSE ELSE @]

\* The interpreter exits with `code`: the registered atexit callback runs.
Exited(r, code) ==
    [(IF r.atexit THEN Cleanup(r) ELSE r) EXCEPT !.pc = "exited", !.exit = code]

RunBegin ==
    /\ run.cmd = "none"
    /\ \E c \in {"run", "start"}, allow \in BOOLEAN :
          run' = [NoRun EXCEPT !.cmd = c,
                               !.pc = IF c = "run" THEN "r_requirements" ELSE "s_backend",
                               !.allow_network = allow]
    /\ UNCHANGED rest

\* A step that either succeeds or ends the command with typer.Exit(1).
RunStep(at, next) ==
    /\ run.pc = at
    /\ \E ok \in BOOLEAN :
          run' = IF ok THEN [run EXCEPT !.pc = next] ELSE Exited(run, 1)
    /\ UNCHANGED rest

\* check_requirements, then detect_config / parse_config.
RunRequirements == RunStep("r_requirements", "r_config")
RunConfig == RunStep("r_config", "r_atexit")

\* atexit.register(cleanup); signal.signal(SIGINT, ...); signal.signal(SIGTERM, ...)
RunAtexit ==
    /\ run.pc = "r_atexit"
    /\ run' = [run EXCEPT !.atexit = TRUE, !.pc = "r_sigint"]
    /\ UNCHANGED rest

RunSigint ==
    /\ run.pc = "r_sigint"
    /\ run' = [run EXCEPT !.on_int = TRUE, !.pc = "r_sigterm"]
    /\ UNCHANGED rest

RunSigterm ==
    /\ run.pc = "r_sigterm"
    /\ run' = [run EXCEPT !.on_term = TRUE, !.pc = "r_image"]
    /\ UNCHANGED rest

\* ensure_custom_image / ensure_default_image
RunImage == RunStep("r_image", "r_checks")

\* check_macos_volumes, check_git_safety; then the proxy unless allow_network.
RunChecks ==
    RunStep("r_checks", IF run.allow_network THEN "r_post_create" ELSE "r_network")

\* create_internal_network, ensure_proxy_image, get_podman_machine_dns: a
\* failure runs cleanup() and exits 1.
RunNetwork ==
    /\ run.pc = "r_network"
    /\ \E ok \in BOOLEAN :
          run' = IF ok THEN [run EXCEPT !.pc = "r_proxy"]
                 ELSE Exited(Cleanup(run), 1)
    /\ UNCHANGED rest

\* run_proxy: `podman run -d --rm --name paude-proxy-...`; a non-zero exit
\* raises ProxyStartError.
RunProxy ==
    /\ run.pc = "r_proxy"
    /\ \E ok \in BOOLEAN :
          run' = IF ok THEN [run EXCEPT !.running = TRUE, !.pc = "r_proxy_sleep"]
                 ELSE Exited(Cleanup(run), 1)
    /\ UNCHANGED rest

\* run_proxy: time.sleep(1), return container_name; the caller assigns
\* proxy_container.
RunProxyReturn ==
    /\ run.pc = "r_proxy_sleep"
    /\ run' = [run EXCEPT !.proxy_container = TRUE, !.pc = "r_post_create"]
    /\ UNCHANGED rest

\* postCreateCommand: a failure is only a warning.
RunPostCreate ==
    /\ run.pc = "r_post_create"
    /\ run' = [run EXCEPT !.pc = "r_session"]
    /\ UNCHANGED rest

\* start_session_legacy: exit_code is 0 when the session ended stopped, else
\* 1; an exception runs cleanup() and exits 1.
RunSession ==
    /\ run.pc = "r_session"
    /\ \E outcome \in {"stopped", "error", "raised"} :
          run' = IF outcome = "raised" THEN Exited(Cleanup(run), 1)
                 ELSE [run EXCEPT !.attached = TRUE,
                                  !.session_code = IF outcome = "stopped" THEN 0 ELSE 1,
                                  !.pc = "r_cleanup"]
    /\ UNCHANGED rest

\* cleanup(); raise typer.Exit(exit_code)
RunCleanup ==
    /\ run.pc = "r_cleanup"
    /\ run' = [Cleanup(run) EXCEPT !.pc = "r_exit"]
    /\ UNCHANGED rest

RunExit ==
    /\ run.pc = "r_exit"
    /\ run' = Exited(run, run.session_code)
    /\ UNCHANGED rest

\* What backend.start_session can hand back to session_start: an exception,
\* 1 without attaching, or the exit code of the attached session.
StartOutcomes ==
    {[exc |-> e, code |-> 1, attached |-> FALSE] :
        e \in {"SessionNotFoundError", "OcTimeoutError", ""}}
    \cup {[exc |-> "", code |-> c, attached |-> TRUE] : c \in ExitCodes}

\* session_start: exit_code = backend.start_session(...)
StartBackend ==
    /\ run.pc = "s_backend"
    /\ \E o \in StartOutcomes :
          run' = [run EXCEPT !.attached = o.attached, !.session_code = o.code,
                             !.pc = IF o.exc = "" THEN "s_exit" ELSE "s_" \o o.exc]
    /\ UNCHANGED rest

\* The exception classes `except Exception` catches: typer.Exit is
\* click.exceptions.Exit, a RuntimeError.
ExceptionClasses == {"SessionNotFoundError", "OcTimeoutError", "Exit"}

\* session_start: `raise typer.Exit(exit_code)` stands inside the try block
\* whose handlers are `except SessionNotFoundError` and `except Exception`,
\* both of which end with typer.Exit(1).
CliStartExit(raised, code) ==
    IF raised = "SessionNotFoundError" THEN 1
    ELSE IF raised \in ExceptionClasses THEN 1
    ELSE code

StartExit ==
    /\ run.pc \in {"s_exit", "s_SessionNotFoundError", "s_OcTimeoutError"}
    /\ run' = Exited(run, CliStartExit(IF run.pc = "s_exit" THEN "Exit"
                                       ELSE IF run.pc = "s_OcTimeoutError"
                                       THEN "OcTimeoutError"
                                       ELSE "SessionNotFoundError",
                                       run.session_code))
    /\ UNCHANGED rest

\* Exit codes of the installed handlers: sys.exit(130), sys.exit(143).
HandlerExit(sg) == IF sg = "SIGINT" THEN 130 ELSE 143

\* A signal arrives.  With the handler installed the process leaves through
\* sys.exit.  Without it SIGINT raises KeyboardInterrupt, which no handler
\* of the command catches and the command-line framework turns into exit 1;
\* SIGTERM terminates the process at once (no atexit), which its parent
\* sees as 128+15.
Signal ==
    /\ run.pc \notin {"none", "exited"}
    /\ \E sg \in {"SIGINT", "SIGTERM"} :
          run' = LET r == [run EXCEPT !.sig = sg] IN
                 IF sg = "SIGINT"
                 THEN Exited(r, IF r.on_int THEN HandlerExit(sg) ELSE 1)
                 ELSE IF r.on_term THEN Exited(r, HandlerExit(sg))
                 ELSE [r EXCEPT !.pc = "exited", !.killed = TRUE, !.exit = 128 + 15]
    /\ UNCHANGED rest

RunNext ==
    \/ RunBegin \/ RunRequirements \/ RunConfig \/ RunAtexit \/ RunSigint
    \/ RunSigterm \/ RunImage \/ RunChecks \/ RunNetwork \/ RunProxy
    \/ RunProxyReturn \/ RunPostCreate \/ RunSession \/ RunCleanup \/ RunExit
    \/ StartBackend \/ StartExit \/ Signal
RunSpec == Init /\ [][RunNext]_vars

\* ------------------------------------------------------- child processes
\* The places where the program spawns a substrate or registry CLI.
\* OC_DEFAULT_TIMEOUT, the class default of _run_oc.
OC_DEFAULT_TIMEOUT == 30

\* _run_oc: None inherits the default, 0 means no timeout, any other value
\* is used as given.
TimeoutValue(timeout) ==
    IF timeout = None THEN OC_DEFAULT_TIMEOUT
    ELSE IF timeout = 0 THEN None
    ELSE timeout

\* subprocess.run(cmd, timeout=t) of a child that runs for d seconds:
\* TimeoutExpired when t is set and the child outlives it.
Expires(t, d) == t # None /\ d > t

\* A child process is spawned at `site` and runs for some time.  Through
\* _run_oc, TimeoutExpired becomes OcTimeoutError; a direct subprocess.run
\* passes no timeout.
Spawned(site, via, interactive, secret_on, arg) ==
    /\ spawn.site = "none"
    /\ \E d \in 0..MaxDuration :
          LET t == IF via THEN TimeoutValue(arg) ELSE None IN
          spawn' = [site |-> site, via_run_oc |-> via, interactive |-> interactive,
                    secret_on |-> secret_on, timeout_arg |-> arg, timeout |-> t,
                    duration |-> d,
                    outcome |-> IF Expires(t, d) THEN "OcTimeoutError" ELSE "returned"]
    /\ UNCHANGED <<substrate, workspace, home, discovery, run, naming, build, coded, procs, history>>

\* self._run_oc(*args, timeout=...): get, scale, delete, whoami, ...
RunOc == \E arg \in None..MaxDuration : Spawned("oc", TRUE, FALSE, {}, arg)

\* _create_credentials_secret / _create_claude_secret:
\* self._run_oc("apply", "-f", "-", input_data=json.dumps(secret_spec))
ApplySecret == Spawned("oc apply secret", TRUE, FALSE, {"stdin"}, None)

\* push_image / _push_via_port_forward:
\* subprocess.run(["podman", "login", "--username=unused", f"--password={token}", ...])
PodmanLogin == Spawned("podman login", FALSE, FALSE, {"argv"}, None)

\* subprocess.run(["podman", "push", ...], capture_output=True, text=True)
PodmanPush == Spawned("podman push", FALSE, FALSE, {}, None)

\* _rsync_to_pod / _rsync_from_pod:
\* subprocess.run(["oc", "rsync", "--progress", ...], capture_output=True, text=True)
OcRsync == Spawned("oc rsync", FALSE, FALSE, {}, None)

\* sync_session: self._run_oc("rsync", src, dst, ..., check=False), no
\* timeout argument.
SyncSessionRsync == Spawned("sync_session rsync", TRUE, FALSE, {}, None)

\* connect_session: subprocess.run(["oc", "exec", "-it", ...])
OcExec == Spawned("oc exec", FALSE, TRUE, {}, None)

\* The parent has collected the child's result.
Reaped ==
    /\ spawn.site # "none"
    /\ spawn' = NoSpawn
    /\ UNCHANGED <<substrate, workspace, home, discovery, run, naming, build, coded, procs, history>>

SpawnNext ==
    \/ RunOc \/ ApplySecret \/ PodmanLogin \/ PodmanPush \/ OcRsync \/ OcExec
    \/ SyncSessionRsync \/ Reaped
SpawnSpec == Init /\ [][SpawnNext]_vars

\* ---------------------------------------------------------- session name
\* The characters of the model: ASCII lower and upper case, a digit, the
\* dash, two other punctuation marks and a non-ASCII letter ("U+00E9", e
\* with acute accent).
Chars == {"a", "B", "1", "-", "_", ".", "U+00E9"}

\* str.lower() and str.isalnum() on these characters; isalnum is true of
\* every Unicode letter and digit.
Lower(c) == IF c = "B" THEN "b" ELSE c
IsAlnum(c) == c \in {"a", "b", "B", "1", "U+00E9"}

Repeat(c, n) == [i \in 1..n |-> c]

\* s.strip("-")
Strip(s) ==
    LET kept_at == {i \in 1..Len(s) : s[i] # "-"} IN
    IF kept_at = {} THEN << >>
    ELSE SubSeq(s, CHOOSE i \in kept_at : \A j \in kept_at : i <= j,
                   CHOOSE i \in kept_at : \A j \in kept_at : i >= j)

\* s[:n]
Prefix(s, n) == SubSeq(s, 1, IF Len(s) < n THEN Len(s) ELSE n)

\* _generate_session_name: the lowered directory name with every
\* non-alphanumeric character replaced by "-", stripped of dashes, cut to
\* 20 characters, "session" when nothing is left, then "-" and the first 8
\* hex digits of the path's SHA-256.
GenerateSessionName(dir, hash) ==
    LET dir_name == [i \in 1..Len(dir) |-> Lower(dir[i])]
        replaced == [i \in 1..Len(dir_name) |->
                        IF IsAlnum(dir_name[i]) THEN dir_name[i] ELSE "-"]
        cut == Prefix(Strip(replaced), 20)
        sanitized == IF cut = << >> THEN <<"s", "e", "s", "s", "i", "o", "n">> ELSE cut
    IN  sanitized \o <<"-">> \o hash

\* create_session: session_name = config.name or _generate_session_name(config.workspace)
SessionName ==
    /\ naming.name = <<"?">>
    /\ naming' = [naming EXCEPT !.name =
                     IF naming.given # << >> THEN naming.given
                     ELSE GenerateSessionName(naming.dir, naming.hash)]
    /\ UNCHANGED <<substrate, workspace, home, discovery, run, spawn, build, coded, procs, history>>

\* The names create can be asked for: a name given by the user, or none and
\* a workspace directory whose name is up to three runs of characters.
NameInputs ==
    {[given |-> Repeat(c, n), dir |-> << >>, hash |-> Repeat("a", 8), name |-> <<"?">>] :
        c \in Chars, n \in {1, 2, 63, 64}}
    \cup
    {[given |-> << >>, dir |-> Repeat(c1, n1) \o Repeat(c2, n2) \o Repeat(c3, n3),
      hash |-> Repeat(h, 8), name |-> <<"?">>] :
        c1 \in Chars, c2 \in Chars, c3 \in Chars,
        n1 \in 0..MaxRun, n2 \in 0..1, n3 \in 0..1, h \in {"a", "1", "f"}}

NameInit ==
    /\ Fresh
    /\ sts = [n \in Names |-> NoSts]
    /\ pod = [n \in Names |-> "none"]
    /\ pvc = [n \in Names |-> "none"]
    /\ netpol = [n \in Names |-> "none"]
    /\ home = {}
    /\ cwd = "W"
    /\ reach = Substrates
    /\ podman = [n \in PodNames |-> NoPodman]
    /\ annot = [n \in Names |-> "W"]
    /\ res = NoRes
    /\ naming \in NameInputs

NameSpec == NameInit /\ [][SessionName]_vars

\* ------------------------------------------------------------- image hash
\* hashlib.sha256(data).hexdigest()[:12]: the digest is kept as a function
\* of the bytes digested, distinct byte strings having distinct digests.
Sha256Hex12(data) == <<"sha256[:12]", data>>

\* path.read_text() of a file that exists, nothing otherwise.
ReadText(file) == IF file.exists THEN file.text ELSE << >>

\* The workspace source that goes into the hash when the configuration asks
\* for pip_install: path and content of each file of the tree, taken in the
\* order of the paths whatever order the directory listing came in.
WorkspaceSource(pip_install, listing) ==
    LET at(path) == IF \E i \in 1..Len(listing) : listing[i] = path
                    THEN <<path, "src">> ELSE << >>
    IN  IF pip_install THEN at("p") \o at("q") ELSE << >>

\* Variant: the modification time of the configuration file is hashed too.
ComputeConfigHashStamped(config_file, dockerfile, base_image, entrypoint, source, version) ==
    Sha256Hex12(ReadText(config_file) \o <<config_file.mtime>> \o ReadText(dockerfile)
                \o base_image \o ReadText(entrypoint) \o source \o version \o <<"\n">>)

\* compute_config_hash: the texts of the configuration file and of the
\* Dockerfile when they exist, the base image name, the text of the
\* entrypoint, the workspace source, the version, a newline.
ComputeConfigHash(config_file, dockerfile, base_image, entrypoint, source, version) ==
    Sha256Hex12(ReadText(config_file) \o ReadText(dockerfile) \o base_image
                \o ReadText(entrypoint) \o source \o version \o <<"\n">>)

\* platform.split("/")[-1]
Arch(platform) ==
    CASE platform = "linux/amd64" -> "amd64"
      [] platform = "linux/arm64" -> "arm64"
      [] OTHER -> platform

\* The version of the installed package.
Version == <<"0", ".", "1">>

\* ensure_custom_image, the tag: paude-workspace:<hash>-<arch>, without the
\* architecture when no platform is set.
ImageTag ==
    LET config_hash == ComputeConfigHash(build.config_file, build.dockerfile,
                           build.base_image, build.entrypoint,
                           WorkspaceSource(build.pip_install, build.listing), Version)
    IN  IF build.platform # ""
        THEN <<"paude-workspace:", config_hash, "-", Arch(build.platform)>>
        ELSE <<"paude-workspace:", config_hash>>

\* Each tag is kept with what its computation could have looked at besides
\* the content: the timestamps of the files and the order of the listing.
EnsureCustomImage ==
    /\ LET t == [ref |-> ImageTag,
                 seen |-> <<build.config_file.mtime, build.dockerfile.mtime,
                            build.entrypoint.mtime, build.listing>>]
       IN  build' = [build EXCEPT !.tag = t,
                                  !.first = IF @ = NoTag THEN t ELSE @]
    /\ UNCHANGED <<substrate, workspace, home, discovery, run, spawn, naming, coded,
                   procs, history>>

\* A file of the build is written again with the content it had.
Touch ==
    /\ \E f \in {"config_file", "dockerfile", "entrypoint"} :
          /\ build[f].exists
          /\ build' = [build EXCEPT ![f].mtime = 1 - @]
    /\ UNCHANGED <<substrate, workspace, home, discovery, run, spawn, naming, coded,
                   procs, history>>

\* The directory listing of the workspace comes in another order.
Relist ==
    /\ Len(build.listing) = 2
    /\ build' = [build EXCEPT !.listing = <<@[2], @[1]>>]
    /\ UNCHANGED <<substrate, workspace, home, discovery, run, spawn, naming, coded,
                   procs, history>>

\* The builds: a configuration file or none, a Dockerfile or none, a base
\* image name or none, the entrypoint, a workspace tree of up to two files.
BuildInputs ==
    {[NoBuild EXCEPT !.config_file = c, !.dockerfile = d, !.base_image = b,
                     !.entrypoint = e, !.pip_install = pi, !.listing = l,
                     !.platform = pf] :
        c \in {NoFileStat, [exists |-> TRUE, text |-> <<"{", "}">>, mtime |-> 0],
                           [exists |-> TRUE, text |-> <<"{", "x", "}">>, mtime |-> 0]},
        d \in {NoFileStat, [exists |-> TRUE, text |-> <<"F", "R", "O", "M">>, mtime |-> 0]},
        b \in {<< >>, <<"i", "m", "g">>},
        e \in {NoFileStat, [exists |-> TRUE, text |-> <<"#", "!">>, mtime |-> 0]},
        pi \in BOOLEAN,
        l \in {<< >>, <<"p">>, <<"p", "q">>},
        pf \in {"", "linux/amd64", "linux/arm64"}}

\* An empty namespace and no discovery.
NoCluster ==
    /\ sts = [n \in Names |-> NoSts]
    /\ pod = [n \in Names |-> "none"]
    /\ pvc = [n \in Names |-> "none"]
    /\ netpol = [n \in Names |-> "none"]
    /\ home = {}
    /\ cwd = "W"
    /\ reach = Substrates
    /\ podman = [n \in PodNames |-> NoPodman]
    /\ annot = [n \in Names |-> "W"]
    /\ res = NoRes

HashInit ==
    /\ Quiet /\ NoCluster
    /\ run = NoRun /\ spawn = NoSpawn /\ naming = NoNaming /\ coded = NoCoded
    /\ build \in BuildInputs

HashNext == EnsureCustomImage \/ Touch \/ Relist
HashSpec == HashInit /\ [][HashNext]_vars

\* ------------------------------------------------- workspace annotation
MaxPath == 4

\* The characters of a path: the separator, a letter, the dot, the space, a
\* non-ASCII letter ("U+00E9") and the lone surrogate "U+DCFF" that
\* os.fsdecode gives for the byte 0xFF of a file name that is not UTF-8.
PathChars == {"/", "a", ".", " ", "U+00E9", "U+DCFF"}

\* The components of a string between its separators.
RECURSIVE Split(_)
Split(s) ==
    IF s = << >> THEN << << >> >>
    ELSE LET parts == Split(Tail(s)) IN
         IF Head(s) = "/" THEN << << >> >> \o parts
         ELSE << <<Head(s)>> \o Head(parts) >> \o Tail(parts)

RECURSIVE Join(_)
Join(parts) ==
    IF parts = << >> THEN << >>
    ELSE IF Len(parts) = 1 THEN parts[1]
    ELSE parts[1] \o <<"/">> \o Join(Tail(parts))

\* Path(s) of an absolute POSIX string, as its string: empty and "."
\* components dropped, the root "//" when s starts with exactly two
\* separators and "/" otherwise.
PathOf(s) ==
    LET root == IF Len(s) >= 2 /\ s[2] = "/" /\ ~(Len(s) >= 3 /\ s[3] = "/")
                THEN <<"/", "/">> ELSE <<"/">>
    IN  root \o Join(SelectSeq(Split(s), LAMBDA c : c # << >> /\ c # <<".">>))

\* str.encode(): UTF-8, strict; a lone surrogate cannot be encoded.
Encodable(s) == \A i \in 1..Len(s) : s[i] # "U+DCFF"

Utf8(c) ==
    CASE c = "/" -> <<47>>
      [] c = "a" -> <<97>>
      [] c = "." -> <<46>>
      [] c = " " -> <<32>>
      [] c = "U+00E9" -> <<195, 169>>

RECURSIVE StrEncode(_)
StrEncode(s) == IF s = << >> THEN << >> ELSE Utf8(Head(s)) \o StrEncode(Tail(s))

\* bytes.decode(): UTF-8, strict.
RECURSIVE BytesDecode(_)
BytesDecode(b) ==
    IF b = << >> THEN << >>
    ELSE IF Len(b) >= 2 /\ b[1] = 195 /\ b[2] = 169
         THEN <<"U+00E9">> \o BytesDecode(SubSeq(b, 3, Len(b)))
    ELSE <<CHOOSE c \in {"/", "a", ".", " "} : Utf8(c) = <<b[1]>> >>
         \o BytesDecode(Tail(b))

B64Alphabet == <<
    "A", "B", "C", "D", "E", "F", "G", "H", "I", "J", "K", "L", "M", "N", "O", "P",
    "Q", "R", "S", "T", "U", "V", "W", "X", "Y", "Z", "a", "b", "c", "d", "e", "f",
    "g", "h", "i", "j", "k", "l", "m", "n", "o", "p", "q", "r", "s", "t", "u", "v",
    "w", "x", "y", "z", "0", "1", "2", "3", "4", "5", "6", "7", "8", "9", "+", "/">>

B64Index(ch) == (CHOOSE i \in 1..64 : B64Alphabet[i] = ch) - 1

\* base64.b64encode: three bytes make four characters of six bits each; one
\* or two bytes left make two or three characters, padded with "=".
RECURSIVE B64Encode(_)
B64Encode(b) ==
    IF b = << >> THEN << >>
    ELSE LET b1 == b[1]
             b2 == IF Len(b) >= 2 THEN b[2] ELSE 0
             b3 == IF Len(b) >= 3 THEN b[3] ELSE 0
             n  == b1 * 65536 + b2 * 256 + b3
             c1 == B64Alphabet[(n \div 262144) + 1]
             c2 == B64Alphabet[((n \div 4096) % 64) + 1]
             c3 == B64Alphabet[((n \div 64) % 64) + 1]
             c4 == B64Alphabet[(n % 64) + 1]
         IN  IF Len(b) = 1 THEN <<c1, c2, "=", "=">>
             ELSE IF Len(b) = 2 THEN <<c1, c2, c3, "=">>
             ELSE <<c1, c2, c3, c4>> \o B64Encode(SubSeq(b, 4, Len(b)))

\* base64.b64decode: four characters make three bytes, fewer with padding.
RECURSIVE B64Decode(_)
B64Decode(e) ==
    IF Len(e) < 4 THEN << >>
    ELSE LET v(i) == IF e[i] = "=" THEN 0 ELSE B64Index(e[i])
             n  == v(1) * 262144 + v(2) * 4096 + v(3) * 64 + v(4)
             b1 == n \div 65536
             b2 == (n \div 256) % 256
             b3 == n % 256
         IN  IF e[3] = "=" THEN <<b1>>
             ELSE IF e[4] = "=" THEN <<b1, b2>>
             ELSE <<b1, b2, b3>> \o B64Decode(SubSeq(e, 5, Len(e)))

\* _encode_path: base64.b64encode(str(path).encode()).decode()
EncodePath ==
    /\ coded.path # << >> /\ coded.encoded = <<"?">> /\ coded.exc = ""
    /\ coded' = IF Encodable(coded.path)
                THEN [coded EXCEPT !.encoded = B64Encode(StrEncode(coded.path))]
                ELSE [coded EXCEPT !.exc = "UnicodeEncodeError"]
    /\ UNCHANGED <<substrate, workspace, home, discovery, run, spawn, naming, build,
                   procs, history>>

\* _decode_path: Path(base64.b64decode(encoded.encode()).decode())
DecodePath ==
    /\ coded.encoded # <<"?">> /\ coded.decoded = <<"?">>
    /\ coded' = [coded EXCEPT !.decoded = PathOf(BytesDecode(B64Decode(coded.encoded)))]
    /\ UNCHANGED <<substrate, workspace, home, discovery, run, spawn, naming, build,
                   procs, history>>

\* The absolute paths: Path(s) of the strings of up to MaxPath characters
\* that start with the separator.
RECURSIVE Strings(_)
Strings(n) ==
    IF n = 0 THEN {<< >>}
    ELSE LET shorter == Strings(n - 1)
         IN  shorter \cup {<<c>> \o t : c \in PathChars, t \in {u \in shorter : Len(u) = n - 1}}

AbsolutePaths == {PathOf(<<"/">> \o t) : t \in Strings(MaxPath - 1)}

PathInit ==
    /\ Quiet /\ NoCluster
    /\ run = NoRun /\ spawn = NoSpawn /\ naming = NoNaming /\ build = NoBuild
    /\ \E w \in AbsolutePaths : coded = [NoCoded EXCEPT !.path = w]

PathNext == EncodePath \/ DecodePath
PathSpec == PathInit /\ [][PathNext]_vars

\* ================================================================ properties
Finished(p, verb) == pc[p] = "done" /\ call[p].verb = verb
Succeeded(p, verb) == Finished(p, verb) /\ result[p].exc = ""
Issued(p, ev) == \E i \in 1..Len(log[p]) : log[p][i] = ev
Before(p, a, b) == \E i, j \in 1..Len(log[p]) : i < j /\ log[p][i] = a /\ log[p][j] = b

C2_AtMostOneCreateSucceeds == \A n \in Names : created[n] <= 1

\* C3 (egress confinement): whenever the workload pod of a session created
\* with network_restricted=true exists, the session's restricting egress
\* policy is in place.
C3_EgressConfined ==
    \A n \in Names :
        (sts[n].exists /\ sts[n].restricted /\ pod[n] # "none") =>
            netpol[n] = "restricted"

\* C4 (start ordering): a start of a restricted session has scaled the
\* workload up only with the session's proxy pod ready, and issues its
\* commands in the order existence check, scale-up, readiness wait, sync, attach.
C4_StartOrder ==
    \A p \in Procs :
        (call[p].verb = "start" /\ Issued(p, "scale_1")) =>
            /\ Before(p, "get_statefulset", "scale_1")
            /\ Issued(p, "rsync_remote") => Before(p, "scale_1", "rsync_remote")
            /\ Issued(p, "exec") => Before(p, "scale_1", "exec")
            /\ (Issued(p, "exec") /\ Issued(p, "rsync_remote")) =>
                   Before(p, "rsync_remote", "exec")
            /\ sts[call[p].name].restricted =>
                   (Issued(p, "proxy_ready") /\ Before(p, "proxy_ready", "scale_1"))

\* C5 (delete ordering): a completed delete scaled the workload to zero
\* before it deleted the volume and before it deleted the proxy objects.
C5_DeleteOrder ==
    \A p \in Procs :
        Succeeded(p, "delete") =>
            /\ Before(p, "scale_0", "delete_pvc")
            /\ Before(p, "scale_0", "delete_proxy")

C8_UnconfirmedDeleteRejected ==
    [][\A p \in Procs :
          (call[p].verb = "delete" /\ ~call[p].confirm /\ pc[p] # "done"
             /\ pc'[p] # pc[p]) =>
              /\ pc'[p] = "done" /\ result'[p].exc = "ValueError"
              /\ log'[p] = <<>>
              /\ substrate' = substrate]_vars

\* C8 witness: an unconfirmed delete of an existing session was rejected.
C8_Witness ==
    /\ Finished(1, "delete") /\ ~call[1].confirm /\ result[1].exc = "ValueError"
    /\ sts[call[1].name].exists /\ pvc[call[1].name] = "bound"

\* C9 as stated (read back unchanged): the bytes the stopped session's volume
\* held are the bytes it holds, whatever start and stop did since.
C9_ReadBackUnchanged ==
    \A n \in Names : kept[n] # NoFile => pvcData[n] = kept[n]

\* C9 amended (stop preserves the volume): only delete removes a bound volume
\* claim, and the bytes kept over a stop change only in the push of a start
\* run with sync=true, which replaces them with the local file of that path.
C9_VolumeKeptExceptPush ==
    [][\A n \in Names :
          /\ (pvc[n] = "bound" /\ pvc'[n] # "bound") =>
                \E p \in Procs : /\ call[p].verb = "delete" /\ call[p].name = n
                                  /\ pc[p] = "d_pvc" /\ pc'[p] # pc[p]
          /\ (kept[n] # NoFile /\ kept'[n] # NoFile /\ pvcData[n] = kept[n]
                 /\ pvcData'[n] # kept'[n]) =>
                \E p \in Procs : /\ call[p].verb = "start" /\ call[p].name = n
                                  /\ call[p].sync /\ pc[p] = "s_sync_push"
                                  /\ pc'[p] # pc[p] /\ pvcData'[n] = workspace]_vars

\* C9 witness: after stop and a start without sync the running session reads
\* back the bytes its workload wrote, which differ from the local file.
C9_Witness ==
    /\ call[1].verb = "start" /\ ~call[1].sync /\ pc[1] = "k_exec"
    /\ pod[call[1].name] = "Running"
    /\ kept[call[1].name] = "B2" /\ pvcData[call[1].name] = "B2" /\ workspace = "B1"

\* C10 (create ends Stopped): when create has returned its Session the
\* StatefulSet exists with replicas 0, get_session reports stopped, and the
\* returned Session carries status stopped.
C10_CreateStopped ==
    \A p \in Procs :
        Succeeded(p, "create") =>
            /\ sts[call[p].name].exists /\ sts[call[p].name].replicas = 0
            /\ SessionStatus(call[p].name) = "stopped"
            /\ result[p].status = "stopped"

\* C10 witness: a create has returned and no pod exists for the session.
C10_Witness ==
    /\ Succeeded(1, "create") /\ Issued(1, "apply_statefulset")
    /\ pod[call[1].name] = "none"

\* The transitions of the documented state machine.
Documented ==
    { <<"Absent", "stopped">>, <<"stopped", "pending">>, <<"pending", "running">>,
      <<"running", "stopped">>, <<"stopped", "Absent">>,
      <<"pending", "Error">>, <<"running", "Error">> }

Undocumented ==
    { <<"pending", "stopped">>, <<"Error", "stopped">>,
      <<"stopped", "running">>, <<"stopped", "Error">> }

C14_WaitTerminates ==
    /\ \A p \in Procs : (pc[p] = "s_wait") ~> (pc[p] # "s_wait")
    /\ [][\A p \in Procs :
            (pc[p] = "s_wait" /\ pc'[p] # "s_wait") =>
                \/ /\ pod[call[p].name] = "Running"
                   /\ pc'[p] = AfterReady(call[p].sync)
                \/ /\ pc'[p] = "done" /\ result'[p].code = 1
                   /\ pod[call[p].name] = "Failed" \/ polls[p] = MaxPolls]_vars

\* C14 witness: a start gave up after the whole budget without a Running pod.
C14_Witness ==
    /\ Finished(1, "start") /\ result[1].code = 1 /\ polls[1] = MaxPolls
    /\ pod[call[1].name] \in {"none", "Pending"}

\* C15 (unknown name): the existence check of a start, stop, confirmed
\* delete or connect that finds no session ends the call with
\* SessionNotFoundError and changes no substrate object.
C15_UnknownNameNotFound ==
    [][\A p \in Procs :
          (/\ \/ pc[p] \in {"s_check", "t_check", "d_check"}
              \/ pc[p] = "k_pod" /\ call[p].verb = "connect"
           /\ ~sts[call[p].name].exists /\ pod[call[p].name] = "none"
           /\ pc'[p] # pc[p]) =>
              /\ pc'[p] = "done" /\ result'[p].exc = "SessionNotFoundError"
              /\ substrate' = substrate]_vars

\* C16 (best-effort sync): whatever a sync step inside start or stop meets,
\* the call goes on: a start's sync step leads on towards the attach, a
\* stop's sync step leads on towards the scale-down, and neither ends the call.
C16_SyncBestEffort ==
    [][\A p \in Procs :
          /\ (pc[p] \in {"s_sync_sts", "s_sync_pod", "s_sync_push"} /\ pc'[p] # pc[p]) =>
                pc'[p] \in {"s_sync_pod", "s_sync_push", "k_pod"}
          /\ (pc[p] \in {"t_sync_sts", "t_sync_pod", "t_sync_pull"} /\ pc'[p] # pc[p]) =>
                pc'[p] \in {"t_sync_pod", "t_sync_pull", "t_scale"}]_vars

\* Sessions of the substrates that answer: those bound to the current
\* directory, and all of them, with status filter f.
Matching(f) ==
    {<<b, n>> : b \in reach, n \in PodNames \cup Names} \cap
    {t \in Substrates \X (PodNames \cup Names) :
        /\ t[2] \in ListSessions(t[1]) /\ WorkspaceOf(t[1], t[2]) = cwd
        /\ FilterOk(t[1], t[2], f)}

Candidates(f) ==
    {<<b, n>> : b \in reach, n \in PodNames \cup Names} \cap
    {t \in Substrates \X (PodNames \cup Names) :
        t[2] \in ListSessions(t[1]) /\ FilterOk(t[1], t[2], f)}

\* C17 (discovery correctness): with one local session bound to W and one
\* cluster session bound to another directory, start without a name or a
\* backend resolves to the local session from W and to the cluster session
\* from the other directory.
C17_DiscoveryCorrectness ==
    \A s1 \in PodNames, s2 \in Names :
        (/\ res.fn = "start" /\ res.backend = "-" /\ reach = Substrates
         /\ ListSessions("podman") = {s1} /\ ListSessions("openshift") = {s2}
         /\ podman[s1].workspace # annot[s2]) =>
            /\ cwd = podman[s1].workspace => res.target = <<"podman", s1>>
            /\ cwd = annot[s2] => res.target = <<"openshift", s2>>

\* Resolution is unique: exactly one session of the answering substrates is
\* bound to the current directory, or none is and exactly one session exists.
Unique(f) ==
    \/ Cardinality(Matching(f)) = 1
    \/ Matching(f) = {} /\ Cardinality(Candidates(f)) = 1

\* C18 (unique resolution): start without a name or a backend acts on a
\* session only when resolution is unique, and then on that session;
\* otherwise it exits 1 and acts on none.
C18_UniqueResolution ==
    (res.fn = "start" /\ res.backend = "-" /\ reach = Substrates) =>
        /\ res.target # Nobody =>
              /\ Unique("any")
              /\ res.target \in Matching("any") \cup Candidates("any")
              /\ Matching("any") # {} => res.target \in Matching("any")
        /\ ~Unique("any") => res.target = Nobody /\ res.exit = 1

C21_ProxyCreated ==
    \A p \in Procs :
        (Succeeded(p, "create") /\ call[p].network_restricted) =>
            /\ proxy[call[p].name]
            /\ Issued(p, "apply_proxy")
            /\ \A args \in BOOLEAN : ProxyVars \subseteq SessionEnv({}, args)

\* C22 (no proxy when the network is allowed): a create with
\* network_restricted=false that returned has created no proxy, and the
\* session's egress policy is the single empty rule.
C22_AllowNetwork ==
    \A p \in Procs :
        (Succeeded(p, "create") /\ ~call[p].network_restricted) =>
            LET n == call[p].name IN
            /\ ~proxy[n] /\ ~Issued(p, "apply_proxy")
            /\ \A args \in BOOLEAN : ProxyVars \cap SessionEnv({}, args) = {}
            /\ EgressRules(netpol[n]) = << [ports |-> {}, to |-> {}] >>

\* C22 witness: such a create has returned.
C22_Witness ==
    /\ Succeeded(1, "create") /\ ~call[1].network_restricted
    /\ netpol[call[1].name] = "permissive"

\* C23 (confining policy): every rule of an installed confining policy
\* allows only DNS (UDP/TCP 53, 5353) to anywhere or TCP 3128 to the
\* session's proxy pods, and no destination is an ipBlock.
C23_ConfiningPolicy ==
    \A n \in Names :
        netpol[n] = "restricted" =>
            \A i \in 1..Len(EgressRules(netpol[n])) :
                LET rule == EgressRules(netpol[n])[i] IN
                /\ \A d \in rule.to : d.kind = "podSelector"
                /\ \/ /\ rule.to = {}
                      /\ rule.ports # {}
                      /\ rule.ports \subseteq {<<"UDP", 53>>, <<"TCP", 53>>,
                                               <<"UDP", 5353>>, <<"TCP", 5353>>}
                   \/ /\ rule.to = {[kind |-> "podSelector", value |-> "paude-proxy-" \o n]}
                      /\ rule.ports = {<<"TCP", 3128>>}

\* C24 (start's exit code): when `paude start` attached to the session and
\* no signal arrived, the command exits with the exit code the attached
\* session returned, 0 included.
C24_StartExitCode ==
    (run.cmd = "start" /\ run.pc = "exited" /\ run.sig = "none" /\ run.attached) =>
        run.exit = run.session_code

\* C25 (signals): a process ended by SIGINT exits with 130, one ended by
\* SIGTERM with 143.
C25_SignalExit ==
    /\ (run.pc = "exited" /\ run.sig = "SIGINT") => run.exit = 130
    /\ (run.pc = "exited" /\ run.sig = "SIGTERM") => run.exit = 143

\* C26 (proxy torn down): when the process has exited, by whatever path, no
\* proxy container it started is still running.
C26_ProxyTornDown == run.pc = "exited" => ~run.running

\* C27 (delete cleans a partial create): once delete(name, confirm=true)
\* has ended, having run to its end or having found no session, nothing
\* that a create of the name applied is left: no StatefulSet, no credential
\* object, no network policy, no proxy object.
C27_PartialCreateCleaned ==
    \A p \in Procs :
        (/\ Finished(p, "delete") /\ call[p].confirm
         /\ result[p].exc \in {"", "SessionNotFoundError"}) =>
            LET n == call[p].name IN
            /\ ~sts[n].exists /\ secrets[n] = {}
            /\ netpol[n] = "none" /\ ~proxy[n]

\* C28 (no secret on argv): no child process is spawned with a token or a
\* password among its arguments; a secret goes to the child on stdin or in
\* its environment.
C28_NoSecretOnArgv == spawn.secret_on \subseteq {"stdin", "env"}

\* C30 (timeouts): a non-interactive substrate command runs with the 30 s
\* default unless its caller passes a timeout, with no timeout when the
\* caller passes 0, and ends in a timeout error when it outlives its timeout.
C30_DefaultTimeout ==
    (spawn.site # "none" /\ ~spawn.interactive) =>
        /\ spawn.timeout_arg = None => spawn.timeout = 30
        /\ spawn.timeout_arg = 0 => spawn.timeout = None
        /\ spawn.timeout_arg > 0 => spawn.timeout = spawn.timeout_arg
        /\ (spawn.timeout # None /\ spawn.duration > spawn.timeout) =>
              spawn.outcome = "OcTimeoutError"

\* C29 (session names): the name create uses, given by the user or derived
\* from the workspace path, is 1 to 63 characters long, made of lower-case
\* ASCII letters, digits and "-" only, and neither starts nor ends with "-".
C29_ValidName ==
    naming.name # <<"?">> =>
        LET name == naming.name IN
        /\ Len(name) >= 1 /\ Len(name) <= 63
        /\ \A i \in 1..Len(name) :
              name[i] \in {"a", "b", "e", "f", "i", "n", "o", "s", "1", "-"}
        /\ name[1] # "-" /\ name[Len(name)] # "-"

\* C31 (one volume per session): in every state in which a session exists,
\* from its creation to its deletion, one volume claim is bound for its /pvc
\* mount.
C31_OneVolumeBound == \A n \in Names : sts[n].exists => pvc[n] = "bound"

C33_RoundTrip ==
    /\ coded.exc = ""
    /\ coded.decoded # <<"?">> => coded.decoded = coded.path

\* C34 (start against delete): once a start and a confirmed delete of one
\* session, issued by two processes, have both returned and the pod of a
\* removed StatefulSet has been collected, a session without its StatefulSet
\* has no volume claim, no credential object and no network policy left.
C34_StartDeleteRace ==
    \A p, q \in Procs :
        (/\ Finished(p, "start") /\ Finished(q, "delete")
         /\ call[q].confirm /\ call[p].name = call[q].name) =>
            LET n == call[p].name IN
            (~sts[n].exists /\ pod[n] = "none") =>
                pvc[n] = "none" /\ secrets[n] = {} /\ netpol[n] = "none"

C36_SelectsRunning ==
    (res.fn \in {"stop", "connect"} /\ res.target # Nobody) =>
        StatusOf(res.target[1], res.target[2]) = "running"

\* C37 (other sessions untouched): no step of create, start, stop, sync or
\* delete on session "a" creates, changes or deletes the StatefulSet, the
\* pod, the volume claim or its content, a credential object or the network
\* policy of session "b".
C37_OtherSessionUntouched ==
    [][(pc' # pc \/ log' # log) =>
          /\ sts'["b"] = sts["b"] /\ pod'["b"] = pod["b"]
          /\ pvc'["b"] = pvc["b"] /\ pvcData'["b"] = pvcData["b"]
          /\ secrets'["b"] = secrets["b"] /\ netpol'["b"] = netpol["b"]
          /\ proxy'["b"] = proxy["b"] /\ annot'["b"] = annot["b"]]_vars

\* C37 witness: session "a", created with credentials, synced and started,
\* has been deleted by label beside session "b", which has all its objects.
C37_Witness ==
    /\ Succeeded(1, "delete") /\ call[1].name = "a"
    /\ Issued(1, "delete_by_session_id") /\ Issued(1, "delete_by_session_name")
    /\ home = CredKinds /\ secrets["a"] = {} /\ netpol["a"] = "none"
    /\ sts["b"].exists /\ pod["b"] = "Running" /\ pvc["b"] = "bound"
    /\ secrets["b"] = CredKinds /\ netpol["b"] = "restricted"

\* C38 (no timeout for rsync and exec): an rsync of the workspace and the
\* interactive exec are spawned with no timeout and run to their end however
\* long they take.
C38_NoTimeout ==
    spawn.site \in {"sync_session rsync", "oc rsync", "oc exec"} =>
        spawn.timeout = None /\ spawn.outcome = "returned"

\* C39 (pull before scale-down): in a stop with sync=true the rsync from the
\* pod has ended before the scale to zero is issued: no rsync of the call
\* comes after its scale-down.
C39_PullBeforeScaleDown ==
    \A p \in Procs :
        (call[p].verb = "stop" /\ call[p].sync) =>
            \A i, j \in 1..Len(log[p]) :
                (log[p][i] = "rsync_local" /\ log[p][j] = "scale_0") => i < j

\* C39 witness: a stop with sync=true has pulled the volume's file into the
\* workspace and then scaled the session down.
C39_Witness ==
    /\ Succeeded(1, "stop") /\ call[1].sync
    /\ Before(1, "rsync_local", "scale_0")
    /\ pvcData[call[1].name] = "B2" /\ workspace = "B2"
    /\ sts[call[1].name].replicas = 0

\* C40 (connect changes nothing): no step of a connect changes a
\* substrate object, so a Running session stays Running with its replicas,
\* volume, credentials and policy, and a connect that ends on a session that
\* is not in state Running ends with a non-zero code.
C40_ConnectChangesNothing ==
    [][\A p \in Procs :
          (call[p].verb = "connect" /\ pc[p] \notin {"idle", "done"} /\ pc'[p] # pc[p]) =>
              /\ substrate' = substrate
              /\ (pc'[p] = "done" /\ SessionState(call[p].name) # "running") =>
                     result'[p].code # 0]_vars

====
